---- MODULE Spec2Model ----
(***************************************************************************)
(* Model of src/components/tx/DecodedTx/index.tsx:                         *)
(*   - the DecodedTx classifier (isMultisend, txData, 'native transfer'),  *)
(*   - chooseBestIcon / getAppLogoUrl,                                     *)
(*   - the manifest resolution pipeline fetchSafeAppFromManifest ->        *)
(*     fetchAppManifest -> fetchAndParse.                                  *)
(* JavaScript strings are sequences of atoms (one-character strings for    *)
(* size lists and numbers, URL pieces for URLs), so that concatenation,    *)
(* split, includes and Number are computed as the code computes them.      *)
(* An optional value is a sequence of length 0 (absent) or 1 (present).    *)
(***************************************************************************)
EXTENDS Integers, Sequences, FiniteSets, TLC

(* ---------- bounds ---------- *)
MaxParams == 2
MaxInner == 1
MaxIcons == 2

(* ---------- optional values (undefined / present) ---------- *)
None == <<>>
Some(x) == <<x>>
IsSome(o) == Len(o) = 1
Get(o) == o[1]

SeqsUpTo(S, n) == UNION {[1..k -> S] : k \in 0..n}

(* ---------- JavaScript string primitives ---------- *)
DigitChars == <<"0", "1", "2", "3", "4", "5", "6", "7", "8", "9">>
IsDigit(c) == \E i \in 1..10 : DigitChars[i] = c
DigitVal(c) == (CHOOSE i \in 1..10 : DigitChars[i] = c) - 1

NaN == -1

RECURSIVE DigitsValue(_)
DigitsValue(s) ==
    IF Len(s) = 0 THEN 0
    ELSE 10 * DigitsValue(SubSeq(s, 1, Len(s) - 1)) + DigitVal(s[Len(s)])

\* Number(str) for strings over digits and letters: "" is 0, a string of
\* digits is its value, anything else is NaN.
JsNumber(s) ==
    IF \A i \in 1..Len(s) : IsDigit(s[i]) THEN DigitsValue(s) ELSE NaN

\* Number(undefined) is NaN.
JsNumberOpt(o) == IF IsSome(o) THEN JsNumber(Get(o)) ELSE NaN

\* a >= b and a > b on JavaScript numbers: false as soon as one side is NaN.
JsGe(a, b) == a # NaN /\ b # NaN /\ a >= b
JsGt(a, b) == a # NaN /\ b # NaN /\ a > b

\* String.prototype.includes: substring test.
JsIncludes(s, sub) ==
    \E i \in 1..(Len(s) - Len(sub) + 1) : SubSeq(s, i, i + Len(sub) - 1) = sub

\* String.prototype.split with a one-character separator.
RECURSIVE JsSplit(_, _)
JsSplit(s, sep) ==
    IF \A i \in 1..Len(s) : s[i] # sep THEN <<s>>
    ELSE LET k == CHOOSE i \in 1..Len(s) :
                      s[i] = sep /\ \A j \in 1..(i - 1) : s[j] # sep
         IN  <<SubSeq(s, 1, k - 1)>> \o JsSplit(SubSeq(s, k + 1, Len(s)), sep)

VARIABLES
    props, txDetailsHook, view,
    icons, chosen,
    pc, appUrl, manifestPath, manifestUrl, inflight, timer, aborted,
    response, appManifest, result, err, console

txVars == <<props, txDetailsHook, view>>
iconVars == <<icons, chosen>>
appVars == <<pc, appUrl, manifestPath, manifestUrl, inflight, timer, aborted,
             response, appManifest, result, err, console>>
vars == <<props, txDetailsHook, view, icons, chosen,
          pc, appUrl, manifestPath, manifestUrl, inflight, timer, aborted,
          response, appManifest, result, err, console>>

(***************************************************************************)
(* The classifier: DecodedTx (lines 34-113) and the useTxDetails hook.     *)
(***************************************************************************)

\* JavaScript truthiness of an optional string: undefined and "" are falsy.
TruthyStr(o) == IsSome(o) /\ Len(Get(o)) > 0

\* Inputs of the component (DecodedTxProps, lines 17-23).
ValueStrings == {<<"0">>, <<"7">>, <<>>}
OperationTypes == {"Call", "DelegateCall"}
TxPool ==
    {None} \cup
    {Some([to |-> "0xA", value |-> v, operation |-> "Call"]) : v \in ValueStrings} \cup
    {Some([to |-> "0xA", value |-> <<"7">>, operation |-> o]) : o \in OperationTypes}

InnerTxs == {"inner"}
ParamPool ==
    {[valueDecoded |-> vd] :
        vd \in {None} \cup {Some(q) : q \in SeqsUpTo(InnerTxs, MaxInner)}}
MethodPool == {None, Some(<<>>), Some(<<"m">>)}
DecodedDataPool ==
    {None} \cup
    {Some([method |-> m, parameters |-> ps]) :
        m \in MethodPool,
        ps \in {None} \cup {Some(q) : q \in SeqsUpTo(ParamPool, MaxParams)}}
TxIdPool == {None, Some("id")}
PropsPool ==
    [tx : TxPool, txId : TxIdPool, decodedData : DecodedDataPool,
     showMultisend : BOOLEAN, showMethodCall : BOOLEAN]

\* Values the transaction-details service can deliver.
TxDataPool ==
    {None} \cup
    {Some([trustedDelegateCallTarget |-> t, addressInfoIndex |-> Some("idx")]) :
        t \in {None, Some(TRUE), Some(FALSE)}}
TxDetailsPool ==
    {[txInfo |-> [type |-> "Custom", to |-> [value |-> "0xB", name |-> Some("label")]],
      txData |-> td] : td \in TxDataPool} \cup
    {[txInfo |-> [type |-> "Transfer", to |-> [value |-> "0xB", name |-> Some("label")]],
      txData |-> Some([trustedDelegateCallTarget |-> Some(FALSE),
                       addressInfoIndex |-> Some("idx")])]}

\* isCustomTxInfo of @/utils/transaction-guards.
isCustomTxInfo(txInfo) == txInfo.type = "Custom"

\* What useTxDetails(txId) returns before anything arrived:
\* [txDetails, txDetailsError, txDetailsLoading].
useTxDetailsInit(txId) ==
    [data |-> None, error |-> None, loading |-> IsSome(txId)]

\* line 41: !!decodedData?.parameters?.[0]?.valueDecoded
isMultisendLenient(decodedData) ==
    /\ IsSome(decodedData)
    /\ IsSome(Get(decodedData).parameters)
    /\ Len(Get(Get(decodedData).parameters)) >= 1
    /\ \E i \in 1..Len(Get(Get(decodedData).parameters)) :
          IsSome(Get(Get(decodedData).parameters)[i].valueDecoded)

isMultisend(decodedData) ==
    /\ IsSome(decodedData)
    /\ IsSome(Get(decodedData).parameters)
    /\ Len(Get(Get(decodedData).parameters)) >= 1
    /\ IsSome(Get(Get(decodedData).parameters)[1].valueDecoded)

\* line 42
isMethodCallInAdvanced(p) == ~p.showMethodCall \/ isMultisend(p.decodedData)

\* line 55
operationKind(tx) ==
    IF IsSome(tx) /\ Get(tx).operation = "DelegateCall" THEN "DELEGATE" ELSE "CALL"

\* line 56: txDetails?.txData?.trustedDelegateCallTarget ?? true
trustedOrTrue(txDetails) ==
    IF /\ IsSome(txDetails)
       /\ IsSome(Get(txDetails).txData)
       /\ IsSome(Get(Get(txDetails).txData).trustedDelegateCallTarget)
    THEN Get(Get(Get(txDetails).txData).trustedDelegateCallTarget) \/ TRUE
    ELSE TRUE

trustedDelegateCallTarget(txDetails) ==
    IF /\ IsSome(txDetails)
       /\ IsSome(Get(txDetails).txData)
       /\ IsSome(Get(Get(txDetails).txData).trustedDelegateCallTarget)
    THEN Get(Get(Get(txDetails).txData).trustedDelegateCallTarget)
    ELSE TRUE

\* line 49
addressInfoIndex(txDetails) ==
    IF IsSome(txDetails) /\ IsSome(Get(txDetails).txData)
    THEN Get(Get(txDetails).txData).addressInfoIndex
    ELSE None

\* lines 51-58
txDataOf(p, txDetails) ==
    [dataDecoded |-> p.decodedData,
     to |-> IF IsSome(p.tx) THEN Get(p.tx).to ELSE "",
     value |-> IF IsSome(p.tx) THEN Some(Get(p.tx).value) ELSE None,
     operation |-> operationKind(p.tx),
     trustedDelegateCallTarget |-> trustedDelegateCallTarget(txDetails),
     addressInfoIndex |-> addressInfoIndex(txDetails)]

\* lines 60-65
toInfoOf(p, txDetails) ==
    IF IsSome(txDetails) /\ isCustomTxInfo(Get(txDetails).txInfo)
    THEN Some(Get(txDetails).txInfo.to)
    ELSE IF IsSome(p.tx) THEN Some([value |-> Get(p.tx).to, name |-> None])
    ELSE None

\* line 90: !showMethodCall && !decodedData?.method && Number(tx?.data.value) > 0
nativeTransferNonNegative(p) ==
    /\ ~p.showMethodCall
    /\ ~(IsSome(p.decodedData) /\ TruthyStr(Get(p.decodedData).method))
    /\ JsGe(JsNumberOpt(IF IsSome(p.tx) THEN Some(Get(p.tx).value) ELSE None), 0)

nativeTransfer(p) ==
    /\ ~p.showMethodCall
    /\ ~(IsSome(p.decodedData) /\ TruthyStr(Get(p.decodedData).method))
    /\ JsGt(JsNumberOpt(IF IsSome(p.tx) THEN Some(Get(p.tx).value) ELSE None), 0)

\* One invocation of DecodedTx (lines 40-112): everything the returned
\* element depends on.
DecodedTxView(p, hook) ==
    LET txDetails == hook.data
        txData == txDataOf(p, txDetails)
        method == IF IsSome(p.decodedData) THEN Get(p.decodedData).method ELSE None
    IN  [txDetails |-> txDetails,
         isMultisend |-> isMultisend(p.decodedData),
         isMethodCallInAdvanced |-> isMethodCallInAdvanced(p),
         txData |-> txData,
         toInfo |-> toInfoOf(p, txDetails),
         topBlock |-> ~isMethodCallInAdvanced(p),
         multisend |-> isMultisend(p.decodedData) /\ p.showMultisend,
         multisendTxData |->
            IF IsSome(txDetails) /\ IsSome(Get(txDetails).txData)
            THEN "txDetails.txData" ELSE "txData",
         disabled |-> ~IsSome(p.tx),
         summaryMethod |-> IF isMethodCallInAdvanced(p) THEN method ELSE None,
         nativeTransfer |-> nativeTransfer(p),
         detailsBlock |-> isMethodCallInAdvanced(p) /\ TruthyStr(method),
         summary |-> IF IsSome(txDetails) THEN "Summary"
                     ELSE IF IsSome(p.tx) THEN "PartialSummary" ELSE "none",
         skeleton |-> hook.loading,
         errorMessage |-> IsSome(hook.error)]

TxIdle ==
    /\ props = None /\ txDetailsHook = None /\ view = None

\* The component is mounted with some props; the hook starts loading.
Mount(p) ==
    /\ props = None
    /\ props' = Some(p)
    /\ txDetailsHook' = Some(useTxDetailsInit(p.txId))
    /\ view' = Some(DecodedTxView(p, useTxDetailsInit(p.txId)))
    /\ UNCHANGED <<iconVars, appVars>>

\* The transaction details arrive: the hook's state changes and the
\* component is invoked again.
DetailsLoaded(d) ==
    /\ IsSome(txDetailsHook) /\ Get(txDetailsHook).loading
    /\ txDetailsHook' = Some([data |-> Some(d), error |-> None, loading |-> FALSE])
    /\ view' = Some(DecodedTxView(Get(props), Get(txDetailsHook')))
    /\ UNCHANGED props
    /\ UNCHANGED <<iconVars, appVars>>

\* The details request fails.
DetailsFailed ==
    /\ IsSome(txDetailsHook) /\ Get(txDetailsHook).loading
    /\ txDetailsHook' = Some([data |-> None, error |-> Some("error"), loading |-> FALSE])
    /\ view' = Some(DecodedTxView(Get(props), Get(txDetailsHook')))
    /\ UNCHANGED props
    /\ UNCHANGED <<iconVars, appVars>>

\* Any further invocation of the memoised component with the same inputs.
Rerender ==
    /\ IsSome(view)
    /\ view' = Some(DecodedTxView(Get(props), Get(txDetailsHook)))
    /\ UNCHANGED <<props, txDetailsHook>>
    /\ UNCHANGED <<iconVars, appVars>>

(***************************************************************************)
(* chooseBestIcon and getAppLogoUrl (lines 140-193).                       *)
(***************************************************************************)

MIN_ICON_WIDTH == 128

SvgType == "image/svg+xml"
PngType == "image/png"

SizesAny == <<"a", "n", "y">>
Sizes64 == <<"6", "4", "x", "6", "4">>
Sizes127 == <<"1", "2", "7", "x", "1", "2", "7">>
Sizes128 == <<"1", "2", "8", "x", "1", "2", "8">>
Sizes64And256 == <<"6", "4", "x", "6", "4", " ", "2", "5", "6", "x", "2", "5", "6">>
SizesMalformed == <<"m", "x", "6", "4">>
SizesMany == <<"m", "a", "n", "y">>

HttpsOrigins == {"https://app.example", "https://cdn.other"}

\* Icon descriptors a manifest can carry (AppManifestIcon, lines 140-145;
\* the manifest is untrusted JSON, so src and sizes may be missing).
IconPool ==
    {[src |-> Some(<<"any.png">>), sizes |-> Some(SizesAny), type |-> None],
     [src |-> Some(<<"v.svg">>), sizes |-> Some(Sizes64), type |-> Some(SvgType)],
     [src |-> Some(<<"s.png">>), sizes |-> Some(Sizes64), type |-> Some(PngType)],
     [src |-> Some(<<"/", "m.png">>), sizes |-> Some(Sizes128), type |-> Some(PngType)],
     [src |-> Some(<<"https://cdn.other", "/", "l.png">>),
      sizes |-> Some(Sizes64And256), type |-> None],
     [src |-> Some(<<"bad.png">>), sizes |-> Some(SizesMalformed), type |-> Some(PngType)],
     [src |-> Some(<<"sub.png">>), sizes |-> Some(SizesMany), type |-> Some(PngType)],
     [src |-> Some(<<>>), sizes |-> Some(<<>>), type |-> None],
     [src |-> None, sizes |-> Some(Sizes127), type |-> Some(PngType)],
     [src |-> Some(<<"n.png">>), sizes |-> None, type |-> Some(PngType)]}

\* line 160: icon?.sizes?.includes('any') || icon?.type === 'image/svg+xml'
isScalable(icon) ==
    \/ IsSome(icon.sizes) /\ JsIncludes(Get(icon.sizes), SizesAny)
    \/ icon.type = Some(SvgType)

\* line 168, for one icon whose sizes is a string:
\* some token of sizes.split(' ') has Number(token.split('x')[0]) >= 128
meetsMinWidth(sizes) ==
    \E k \in 1..Len(JsSplit(sizes, " ")) :
        JsGe(JsNumber(JsSplit(JsSplit(sizes, " ")[k], "x")[1]), MIN_ICON_WIDTH)

Returned(v) == [threw |-> FALSE, value |-> v]
Thrown == [threw |-> TRUE, value |-> None]

\* lines 159-175. The loop of lines 166-172 stops at the first icon that
\* either meets the width (return) or has no sizes (icon.sizes.split throws).
chooseBestIcon(list) ==
    IF \E i \in 1..Len(list) : isScalable(list[i])
    THEN Returned(list[CHOOSE i \in 1..Len(list) :
                           /\ isScalable(list[i])
                           /\ \A j \in 1..(i - 1) : ~isScalable(list[j])].src)
    ELSE LET stops(i) == ~IsSome(list[i].sizes) \/ meetsMinWidth(Get(list[i].sizes))
         IN  IF \E i \in 1..Len(list) : stops(i)
             THEN LET i == CHOOSE k \in 1..Len(list) :
                               stops(k) /\ \A j \in 1..(k - 1) : ~stops(j)
                  IN  IF IsSome(list[i].sizes) THEN Returned(list[i].src) ELSE Thrown
             ELSE IF TruthyStr(list[1].src) THEN Returned(list[1].src)
                  ELSE Returned(Some(<<>>))

\* new URL(appUrl).origin
Origin(url) == <<url[1]>>

\* trimTrailingSlash of @/utils/url
trimTrailingSlash(url) ==
    IF Len(url) > 0 /\ url[Len(url)] = "/" THEN SubSeq(url, 1, Len(url) - 1) ELSE url

\* isRelativeUrl of @/utils/url
isRelativeUrl(url) == Len(url) > 0 /\ url[1] = "/"

\* lines 183-193; manifest.icons and manifest.iconPath are optional.
getAppLogoUrl(url, manifest) ==
    LET list == IF IsSome(manifest.icons) THEN Get(manifest.icons) ELSE <<>>
        iconPath == IF IsSome(manifest.iconPath) THEN Get(manifest.iconPath) ELSE <<>>
        picked == IF Len(list) > 0 THEN chooseBestIcon(list) ELSE Returned(Some(iconPath))
    IN  IF picked.threw \/ ~IsSome(picked.value) THEN Thrown
        ELSE LET iconUrl == Get(picked.value)
             IN  IF Len(iconUrl) > 0 /\ iconUrl[1] \in HttpsOrigins
                 THEN Returned(Some(iconUrl))
                 ELSE Returned(Some(Origin(url)
                                    \o (IF isRelativeUrl(iconUrl) THEN <<>> ELSE <<"/">>)
                                    \o iconUrl))

IconIdle == icons = <<>> /\ chosen = None

\* chooseBestIcon is applied to the list under test.
ChooseIcon ==
    /\ chosen = None
    /\ chosen' = Some(chooseBestIcon(icons))
    /\ UNCHANGED icons
    /\ UNCHANGED <<txVars, appVars>>

(***************************************************************************)
(* The resolution pipeline: fetchAndParse, fetchAppManifest,               *)
(* isAppManifestValid, fetchSafeAppFromManifest (lines 122-138, 195-260).  *)
(***************************************************************************)

AppUrlPool ==
    {<<"https://app.example">>,
     <<"https://app.example", "/">>,
     <<"https://app.example", "/", "sub">>,
     <<"https://app.example", "/", "sub", "/">>}

\* href attributes a page can advertise in link[rel=manifest].
HrefPool ==
    {<<"/", "m.json">>, <<"m.json">>, <<>>, <<"https://cdn.other", "/", "m.json">>}

\* What the discovery page read can produce: the href of the manifest link
\* if the page has one.
PagePool == {None} \cup {Some(h) : h \in HrefPool}

\* Parsed JSON values a manifest response can carry.
ManifestKeys == {"name", "description", "icons", "iconPath"}
ManifestIconLists ==
    {<<>>} \cup {<<i>> : i \in IconPool}
ObjectPool ==
    {[kind |-> "object", keys |-> ks, icons |-> il, iconPath |-> ip] :
        ks \in SUBSET ManifestKeys,
        il \in {None} \cup {Some(l) : l \in ManifestIconLists},
        ip \in {None, Some(<<"/", "i.png">>), Some(<<"i.png">>)}}
JsonPool ==
    {[kind |-> k, keys |-> {}, icons |-> None, iconPath |-> None] :
        k \in {"null", "number", "string", "array"}}
    \cup {o \in ObjectPool :
            /\ IsSome(o.icons) <=> "icons" \in o.keys
            /\ IsSome(o.iconPath) <=> "iconPath" \in o.keys}

\* typeof json
TypeOf(json) == IF json.kind \in {"null", "array", "object"} THEN "object" ELSE json.kind

\* lines 222-230
isAppManifestValidIconsOnly(json) ==
    /\ json.kind # "null"
    /\ TypeOf(json) = "object"
    /\ "name" \in json.keys
    /\ "description" \in json.keys
    /\ "icons" \in json.keys

isAppManifestValid(json) ==
    /\ json.kind # "null"
    /\ TypeOf(json) = "object"
    /\ "name" \in json.keys
    /\ "description" \in json.keys
    /\ ("icons" \in json.keys \/ "iconPath" \in json.keys)

\* line 247: Math.round(Math.random() * 1e9 + 1e6)
IdMin == 1000000
IdMax == 1001000000
IdPool == {IdMin, IdMax}

ChainId == "1"

\* the errors the two functions can end with
AbortError == "AbortError"
FetchTypeError == "TypeError: Failed to fetch"
FailedToFetchManifest == "Failed to fetch manifest"
JsonSyntaxError == "SyntaxError"
InvalidManifest == "Invalid Safe App manifest"
IconTypeError == "TypeError"
ResponseStatus == "Response status"
BodyReadError == "TypeError: body"

\* line 124: fetch(url)
DiscoveryRequest(url) == [url |-> url, signal |-> None]

\* lines 210-212: fetch(manifestUrl, { signal: controller.signal })
ManifestRequestNoSignal(url) == [url |-> url, signal |-> None]

ManifestRequest(url) == [url |-> url, signal |-> Some("controller")]

\* line 197
DefaultManifestUrl(url) == trimTrailingSlash(url) \o <<"/", "manifest.json">>

\* lines 197, 201-204
ManifestUrlFor(url, path) ==
    IF TruthyStr(path) THEN Origin(url) \o Get(path) ELSE DefaultManifestUrl(url)

\* lines 135-137: what fetchAndParse does with an error raised in its body.
fetchAndParseCatchRethrow(error) ==
    [threw |-> TRUE, value |-> None, logged |-> <<>>, error |-> Some(error)]

fetchAndParseCatch(error) ==
    [threw |-> FALSE, value |-> None, logged |-> <<error>>, error |-> None]

\* lines 245-259
ResolvedApp(url, manifest, iconUrl, id) ==
    [id |-> id,
     url |-> trimTrailingSlash(url),
     name |-> "name",
     description |-> "description",
     accessControl |-> "NO_RESTRICTIONS",
     tags |-> <<>>,
     features |-> <<>>,
     socialProfiles |-> <<>>,
     developerWebsite |-> <<>>,
     chainIds |-> <<ChainId>>,
     iconUrl |-> iconUrl,
     safeAppsPermissions |-> <<>>]

AppIdle ==
    /\ pc = "idle" /\ appUrl = <<>> /\ manifestPath = None /\ manifestUrl = <<>>
    /\ inflight = {} /\ timer = "none" /\ aborted = FALSE
    /\ response = None /\ appManifest = None /\ result = None /\ err = None
    /\ console = <<>>

\* fetchSafeAppFromManifest(u, ChainId) is called: lines 236-237, 196-199
\* and 123-124, up to the await of the page fetch.
Call(u) ==
    /\ pc = "idle"
    /\ appUrl' = u
    /\ manifestUrl' = DefaultManifestUrl(u)
    /\ inflight' = {DiscoveryRequest(trimTrailingSlash(u))}
    /\ pc' = "discovery_fetch"
    /\ UNCHANGED <<manifestPath, timer, aborted, response, appManifest, result, err,
                   console>>
    /\ UNCHANGED <<txVars, iconVars>>

\* fetchAndParse has settled with outcome r (lines 199-212): the manifest URL
\* is computed, the controller and its timer are created and the manifest
\* fetch is issued; a throwing fetchAndParse would end the call.
AfterDiscovery(r) ==
    /\ console' = console \o r.logged
    /\ IF r.threw
       THEN /\ pc' = "failed"
            /\ err' = r.error
            /\ inflight' = {}
            /\ UNCHANGED <<manifestPath, manifestUrl, timer>>
       ELSE /\ manifestPath' = r.value
            /\ manifestUrl' = ManifestUrlFor(appUrl, r.value)
            /\ timer' = "armed"
            /\ inflight' = {ManifestRequest(manifestUrl')}
            /\ pc' = "manifest_fetch"
            /\ UNCHANGED err
    /\ UNCHANGED <<appUrl, aborted, response, appManifest, result>>
    /\ UNCHANGED <<txVars, iconVars>>

\* The page fetch resolves with a response (lines 124-130).
DiscoveryResponse(ok) ==
    /\ pc = "discovery_fetch"
    /\ IF ok
       THEN /\ pc' = "discovery_text"
            /\ inflight' = {}
            /\ UNCHANGED <<appUrl, manifestPath, manifestUrl, timer, aborted,
                           response, appManifest, result, err, console>>
            /\ UNCHANGED <<txVars, iconVars>>
       ELSE AfterDiscovery(fetchAndParseCatch(ResponseStatus))

\* The page fetch rejects (network error).
DiscoveryNetworkError ==
    /\ pc = "discovery_fetch"
    /\ AfterDiscovery(fetchAndParseCatch(FetchTypeError))

\* response.text() resolves and the page is parsed (lines 130-134).
DiscoveryPage(page) ==
    /\ pc = "discovery_text"
    /\ AfterDiscovery([threw |-> FALSE, value |-> page, logged |-> <<>>, error |-> None])

\* response.text() rejects or cheerio fails on the page.
DiscoveryPageError ==
    /\ pc = "discovery_text"
    /\ AfterDiscovery(fetchAndParseCatch(BodyReadError))

\* The manifest fetch resolves with a response (lines 210-219).
ManifestResponse(ok) ==
    /\ pc = "manifest_fetch"
    /\ inflight' = {}
    /\ response' = Some([ok |-> ok])
    /\ timer' = IF timer = "armed" THEN "cleared" ELSE timer
    /\ IF ok
       THEN pc' = "manifest_json" /\ UNCHANGED err
       ELSE pc' = "failed" /\ err' = Some(FailedToFetchManifest)
    /\ UNCHANGED <<appUrl, manifestPath, manifestUrl, aborted, appManifest,
                   result, console>>
    /\ UNCHANGED <<txVars, iconVars>>

\* The manifest fetch rejects with a network error: line 213 is not reached.
ManifestNetworkError ==
    /\ pc = "manifest_fetch"
    /\ inflight' = {}
    /\ pc' = "failed"
    /\ err' = Some(FetchTypeError)
    /\ UNCHANGED <<appUrl, manifestPath, manifestUrl, timer, aborted,
                   response, appManifest, result, console>>
    /\ UNCHANGED <<txVars, iconVars>>

\* The timer callback of line 208 runs: controller.abort() rejects every
\* pending fetch that was given the controller's signal.
Timeout ==
    /\ timer = "armed"
    /\ timer' = "fired"
    /\ aborted' = TRUE
    /\ inflight' = {r \in inflight : r.signal # Some("controller")}
    /\ IF pc = "manifest_fetch" /\ inflight' # inflight
       THEN pc' = "failed" /\ err' = Some(AbortError)
       ELSE UNCHANGED <<pc, err>>
    /\ UNCHANGED <<appUrl, manifestPath, manifestUrl, response, appManifest, result,
                   console>>
    /\ UNCHANGED <<txVars, iconVars>>

\* response.json() rejects: the body is not JSON.
ManifestBodyUnparseable ==
    /\ pc = "manifest_json"
    /\ pc' = "failed"
    /\ err' = Some(JsonSyntaxError)
    /\ UNCHANGED <<appUrl, manifestPath, manifestUrl, inflight, timer, aborted,
                   response, appManifest, result, console>>
    /\ UNCHANGED <<txVars, iconVars>>

\* response.json() resolves with json (lines 219, 237-259).
ManifestBody(json, id) ==
    /\ pc = "manifest_json"
    /\ appManifest' = Some(json)
    /\ IF ~isAppManifestValid(json)
       THEN pc' = "failed" /\ err' = Some(InvalidManifest) /\ UNCHANGED result
       ELSE LET logo == getAppLogoUrl(trimTrailingSlash(appUrl), json)
            IN  IF logo.threw
                THEN pc' = "failed" /\ err' = Some(IconTypeError) /\ UNCHANGED result
                ELSE /\ pc' = "done"
                     /\ result' = Some(ResolvedApp(appUrl, json, Get(logo.value), id))
                     /\ UNCHANGED err
    /\ UNCHANGED <<appUrl, manifestPath, manifestUrl, inflight, timer, aborted,
                   response, console>>
    /\ UNCHANGED <<txVars, iconVars>>

(***************************************************************************)
(* Specifications.                                                         *)
(***************************************************************************)

Init == TxIdle /\ IconIdle /\ AppIdle

Next ==
    \/ \E u \in AppUrlPool : Call(u)
    \/ \E ok \in BOOLEAN : DiscoveryResponse(ok)
    \/ DiscoveryNetworkError
    \/ \E page \in PagePool : DiscoveryPage(page)
    \/ DiscoveryPageError
    \/ \E ok \in BOOLEAN : ManifestResponse(ok)
    \/ ManifestNetworkError
    \/ Timeout
    \/ ManifestBodyUnparseable
    \/ \E json \in JsonPool, id \in IdPool : ManifestBody(json, id)

Spec == Init /\ [][Next]_vars

InitIcon ==
    /\ TxIdle /\ AppIdle
    /\ icons \in SeqsUpTo(IconPool, MaxIcons) \ {<<>>}
    /\ chosen = None

NextIcon == ChooseIcon

SpecIcon == InitIcon /\ [][NextIcon]_vars

NextTx ==
    \/ \E p \in PropsPool : Mount(p)
    \/ \E d \in TxDetailsPool : DetailsLoaded(d)
    \/ DetailsFailed
    \/ Rerender

SpecTx == Init /\ [][NextTx]_vars

(***************************************************************************)
(* Properties.                                                             *)
(***************************************************************************)

\* The error kinds of the specification, in terms of what the code throws.
ManifestFetchError == {AbortError, FetchTypeError, FailedToFetchManifest}
ManifestInvalidError == {InvalidManifest}

Finished == pc \in {"done", "failed"}

\* C1: when the timer fires while the manifest fetch is still pending, the
\* fetch is aborted through the controller's signal, the call fails with a
\* ManifestFetchError, no ResolvedApp is returned and no request stays in
\* flight.
C1_TimeoutAbortsManifestFetch ==
    [][(pc = "manifest_fetch" /\ timer = "armed" /\ timer' = "fired") =>
          /\ aborted'
          /\ inflight' = {}
          /\ pc' = "failed"
          /\ IsSome(err') /\ Get(err') \in ManifestFetchError
          /\ result' = None]_vars

C1_Witness ==
    /\ timer = "fired" /\ aborted
    /\ pc = "failed" /\ err = Some(AbortError)
    /\ inflight = {} /\ result = None

\* C2: a failure of manifest discovery is logged and swallowed: the call
\* never fails before the manifest fetch has been issued, and after a logged
\* discovery failure the manifest is fetched from
\* <normalizedUrl>/manifest.json.
C2_DiscoveryFailureSwallowed ==
    /\ pc = "failed" => timer # "none"
    /\ Len(console) > 0 =>
          /\ pc \in {"manifest_fetch", "manifest_json", "done", "failed"}
          /\ manifestPath = None
          /\ manifestUrl = trimTrailingSlash(appUrl) \o <<"/", "manifest.json">>
          /\ pc = "manifest_fetch" => \E r \in inflight : r.url = manifestUrl

C2_Witness ==
    /\ Len(console) > 0
    /\ pc = "done"
    /\ IsSome(result)

\* The shape the specification requires of a manifest: a non-null object
\* with name, description and at least one of icons, iconPath.
RequiredShape(json) ==
    /\ json.kind = "object"
    /\ {"name", "description"} \subseteq json.keys
    /\ json.keys \cap {"icons", "iconPath"} # {}

ManifestNameOnly ==
    [kind |-> "object", keys |-> {"name"}, icons |-> None, iconPath |-> None]
ManifestWithIconPath ==
    [kind |-> "object", keys |-> {"name", "description", "iconPath"},
     icons |-> None, iconPath |-> Some(<<"/", "i.png">>)]

\* A document was retrieved: the manifest fetch got a 2xx response.
DocumentRetrieved == IsSome(response) /\ Get(response).ok

\* C3 as stated: a ResolvedApp is returned only for a document of the
\* required shape, and every other retrieved document makes the call fail
\* with ManifestInvalidError.
C3_EveryOtherDocumentIsInvalid ==
    /\ IsSome(result) => IsSome(appManifest) /\ RequiredShape(Get(appManifest))
    /\ (Finished /\ DocumentRetrieved
          /\ ~(IsSome(appManifest) /\ RequiredShape(Get(appManifest)))) =>
          /\ result = None
          /\ IsSome(err) /\ Get(err) \in ManifestInvalidError

\* C3 amended: a ResolvedApp is returned only for a document whose parsed
\* JSON has the required shape; every retrieved document that parses as JSON
\* without that shape makes the call fail with ManifestInvalidError, which
\* is no ManifestFetchError; a retrieved document that is not JSON makes the
\* call fail with the SyntaxError of response.json(). {name} is rejected and
\* {name, description, iconPath} is accepted.
C3_ParsedDocumentValidated ==
    /\ IsSome(result) => IsSome(appManifest) /\ RequiredShape(Get(appManifest))
    /\ (Finished /\ IsSome(appManifest) /\ ~RequiredShape(Get(appManifest))) =>
          /\ result = None
          /\ IsSome(err) /\ Get(err) \in ManifestInvalidError
          /\ Get(err) \notin ManifestFetchError
    /\ (Finished /\ DocumentRetrieved /\ ~IsSome(appManifest)) =>
          result = None /\ err = Some(JsonSyntaxError)
    /\ (Finished /\ appManifest = Some(ManifestNameOnly)) =>
          result = None /\ err = Some(InvalidManifest)
    /\ (Finished /\ appManifest = Some(ManifestWithIconPath)) =>
          IsSome(result) /\ err = None

C3_Witness ==
    /\ pc = "done"
    /\ appManifest = Some(ManifestWithIconPath)
    /\ IsSome(result)

\* The decoded value of the first parameter of the call data, if any.
FirstValueDecoded(decodedData) ==
    IF /\ IsSome(decodedData)
       /\ IsSome(Get(decodedData).parameters)
       /\ Len(Get(Get(decodedData).parameters)) > 0
    THEN Get(Get(decodedData).parameters)[1].valueDecoded
    ELSE None

\* C4 as stated: isMultisend is true iff the first parameter's decoded value
\* is a non-empty sequence.
C4_MultisendIffNonEmpty ==
    IsSome(view) =>
        (Get(view).isMultisend <=>
            /\ IsSome(FirstValueDecoded(Get(props).decodedData))
            /\ Len(Get(FirstValueDecoded(Get(props).decodedData))) > 0)

\* C4 amended: isMultisend is true iff the first parameter carries a decoded
\* value, empty or not; it is false when the call data is absent, when the
\* parameter list is absent or empty and when the first parameter has no
\* decoded value.
C4_MultisendIffDecoded ==
    IsSome(view) =>
        /\ Get(view).isMultisend <=> IsSome(FirstValueDecoded(Get(props).decodedData))
        /\ ~IsSome(Get(props).decodedData) => ~Get(view).isMultisend
        /\ (IsSome(Get(props).decodedData)
              /\ Get(Get(props).decodedData).parameters \in {None, Some(<<>>)}) =>
              ~Get(view).isMultisend

C4_Witness ==
    /\ IsSome(view)
    /\ Get(view).isMultisend
    /\ FirstValueDecoded(Get(props).decodedData) = Some(<<>>)

\* The flag carried by the transaction details, if they carry one.
CarriedFlag(txDetails) ==
    IF IsSome(txDetails) /\ IsSome(Get(txDetails).txData)
    THEN Get(Get(txDetails).txData).trustedDelegateCallTarget
    ELSE None

\* C5: in every invocation trustedDelegateCallTarget is true while the
\* details are absent (loading or errored), and equals the flag the details
\* carry once they are present.
C5_TrustedDelegateTarget ==
    IsSome(view) =>
        LET details == Get(txDetailsHook).data
            trusted == Get(view).txData.trustedDelegateCallTarget
        IN  /\ Get(view).txDetails = details
            /\ ~IsSome(details) => trusted = TRUE
            /\ (IsSome(details) /\ IsSome(CarriedFlag(details))) =>
                  trusted = Get(CarriedFlag(details))

C5_Witness ==
    /\ IsSome(view)
    /\ IsSome(Get(txDetailsHook).data)
    /\ CarriedFlag(Get(txDetailsHook).data) = Some(FALSE)
    /\ Get(view).txData.trustedDelegateCallTarget = FALSE

\* No method name in the call data, and a call value above zero.
NoMethodName(p) ==
    ~IsSome(p.decodedData) \/ Get(p.decodedData).method \in {None, Some(<<>>)}
PositiveValue(p) ==
    IsSome(p.tx) /\ JsNumber(Get(p.tx).value) # NaN /\ JsNumber(Get(p.tx).value) > 0

\* C6 as stated: 'native transfer' is shown iff there is no method name and
\* the value is above zero, whatever the other inputs are.
C6_NativeTransferIff ==
    IsSome(view) =>
        (Get(view).nativeTransfer <=> NoMethodName(Get(props)) /\ PositiveValue(Get(props)))

\* C6 amended: 'native transfer' is shown iff showMethodCall is false, there
\* is no method name and the value is above zero.
C6_NativeTransferUnlessMethodCallShown ==
    IsSome(view) =>
        (Get(view).nativeTransfer <=>
            /\ ~Get(props).showMethodCall
            /\ NoMethodName(Get(props))
            /\ PositiveValue(Get(props)))

C6_Witness ==
    /\ IsSome(view)
    /\ Get(props).showMethodCall
    /\ NoMethodName(Get(props)) /\ PositiveValue(Get(props))
    /\ ~Get(view).nativeTransfer

\* C7: once the manifest fetch has completed (response, network error or
\* abort), its timer is no longer pending.
C7_TimerClearedOnCompletion ==
    pc \in {"manifest_json", "done", "failed"} => timer # "armed"

\* An href resolved against an origin: an absolute href is itself, a
\* root-relative one follows the origin, a bare one follows origin and "/".
ResolveAgainstOrigin(url, href) ==
    IF href[1] \in HttpsOrigins THEN href
    ELSE IF href[1] = "/" THEN <<url[1]>> \o href
    ELSE <<url[1], "/">> \o href

\* C8: the manifest URL that is fetched is the discovered href resolved
\* against the origin of the app URL, or <normalizedUrl>/manifest.json when
\* discovery produced no href.
C8_ManifestUrlResolved ==
    pc \in {"manifest_fetch", "manifest_json", "done", "failed"} =>
        manifestUrl =
            IF TruthyStr(manifestPath)
            THEN ResolveAgainstOrigin(appUrl, Get(manifestPath))
            ELSE trimTrailingSlash(appUrl) \o <<"/", "manifest.json">>

\* The size tokens of an icon, and the selection the specification describes.
SizeTokens(icon) == IF IsSome(icon.sizes) THEN JsSplit(Get(icon.sizes), " ") ELSE <<>>
HasAnyTokenOrSvg(icon) ==
    \/ \E k \in 1..Len(SizeTokens(icon)) : SizeTokens(icon)[k] = SizesAny
    \/ icon.type = Some(SvgType)
HasWideToken(icon) ==
    \E k \in 1..Len(SizeTokens(icon)) :
        LET width == JsNumber(JsSplit(SizeTokens(icon)[k], "x")[1])
        IN  width # NaN /\ width >= 128
FirstIndex(list, P(_)) ==
    CHOOSE i \in 1..Len(list) : P(list[i]) /\ \A j \in 1..(i - 1) : ~P(list[j])
SpecifiedIcon(list) ==
    IF \E i \in 1..Len(list) : HasAnyTokenOrSvg(list[i])
    THEN list[FirstIndex(list, HasAnyTokenOrSvg)].src
    ELSE IF \E i \in 1..Len(list) : HasWideToken(list[i])
    THEN list[FirstIndex(list, HasWideToken)].src
    ELSE IF TruthyStr(list[1].src) THEN list[1].src ELSE Some(<<>>)

\* C9: for every non-empty icon list chooseBestIcon returns the source of
\* the first icon with the token "any" or of type SVG, otherwise of the
\* first icon with a size token of width >= 128, otherwise the first icon's
\* source or the empty string; the selection never fails.
C9_ChooseBestIcon ==
    IsSome(chosen) =>
        /\ ~Get(chosen).threw
        /\ Get(chosen).value = SpecifiedIcon(icons)

\* C10: every network fetch of a resolution run is issued with a
\* cancellation token.
C10_EveryFetchCancellable ==
    \A r \in inflight : IsSome(r.signal)

====
